---- MODULE Spec2Model ----
(***************************************************************************)
(* A model of the Oberraut room-booking client: the calendar grid, the     *)
(* interval availability test, the two-tap selection state machine of      *)
(* CalendarScreen, the booking form and edit modals, the vacation          *)
(* operations of EinstellungenScreen, the day overview of HomeScreen and    *)
(* the remote tables they read and write.                                  *)
(*                                                                         *)
(* Time.  A JavaScript Date is modelled as an integer count of "slots" of  *)
(* local wall-clock time: day d at time of day tod is d * SlotsPerDay +    *)
(* tod.  Slot 0 of a day is local midnight.  A date-only string            *)
(* 'YYYY-MM-DD' of the tables is modelled as the integer day d.            *)
(***************************************************************************)
EXTENDS Integers, Sequences, FiniteSets, TLC

(* ------------------------------ bounds -------------------------------- *)
\* time-of-day resolution: slots per calendar day
SlotsPerDay == 3
\* largest offset of local time ahead of UTC, in slots
MaxTz == 1
\* rooms of the guesthouse: ids 1..NumRooms
NumRooms == 2
\* the grid window: pastDays before today, FutureDays after it
PastDays == 1
FutureDays == 1
\* longest booking list handed to the calendar as an initial snapshot
MaxSnapshot == 2

(* --------------------------- program values --------------------------- *)
\* the null of selectedzimmerId (useState<number | null>(null)); room ids of
\* the zimmer table are positive
NoRoom == 0

Rooms == 1..NumRooms
\* the calendar day on which the grid is generated; the window starts at day 0
Today == PastDays
Days == 0..(PastDays + FutureDays)
TimesOfDay == 0..(SlotsPerDay - 1)
TzOffsets == 0..MaxTz

\* a nullable reference is a sequence of length 0 (null) or 1
Null == <<>>
Some(x) == <<x>>
IsNull(x) == x = <<>>
Val(x) == x[1]

(* ----------------------------- pure helpers --------------------------- *)
\* parseDate of a date-only string: local midnight of that day
parseDate(dateStr) == dateStr * SlotsPerDay

\* the local calendar day (getFullYear, getMonth, getDate) of a Date
LocalDay(t) == t \div SlotsPerDay

isSameDay(d1, d2) == LocalDay(d1) = LocalDay(d2)

\* date.toISOString().split('T')[0]: the calendar day of the instant in UTC,
\* the local clock being tz slots ahead of UTC
toISODate(t, tz) == (t - tz) \div SlotsPerDay

\* a faulty loop of generateDaysArray that advances two days per cell
RECURSIVE daysLoop_SkipsADay(_, _)
daysLoop_SkipsADay(current, endDate) ==
  IF current <= endDate
    THEN <<current>> \o daysLoop_SkipsADay(current + 2 * SlotsPerDay, endDate)
    ELSE <<>>

\* generateDaysArray: one cell per day from now - pastDays up to the end
\* date, every cell carrying the time of day of `now`
RECURSIVE daysLoop(_, _)
daysLoop(current, endDate) ==
  IF current <= endDate
    THEN <<current>> \o daysLoop(current + SlotsPerDay, endDate)
    ELSE <<>>

generateDaysArray(now, pastDays, futureDays) ==
  daysLoop(now - pastDays * SlotsPerDay, now + futureDays * SlotsPerDay)

\* days.findIndex(...): the position (1-based) of the first cell on the same
\* local day as date, 0 when there is none (findIndex's -1)
findDayIndex(date, days) ==
  LET hits == {j \in 1..Len(days) : isSameDay(days[j], date)}
  IN IF hits = {} THEN 0 ELSE CHOOSE j \in hits : \A k \in hits : j <= k

\* availLoop without the `zimmer_id !== zimmerId` skip
RECURSIVE availLoop_AnyRoom(_, _, _, _, _)
availLoop_AnyRoom(i, zimmerId, start, end, bookings) ==
  IF i > Len(bookings) THEN TRUE
  ELSE LET booking == bookings[i]
           bookingStart == parseDate(booking.check_in)
           bookingEnd == parseDate(booking.check_out)
       IN IF start < bookingEnd /\ end > bookingStart
            THEN IF end = bookingStart \/ start = bookingEnd
                   THEN availLoop_AnyRoom(i + 1, zimmerId, start, end, bookings)
                   ELSE FALSE
          ELSE availLoop_AnyRoom(i + 1, zimmerId, start, end, bookings)

\* the for loop of isIntervalAvailableForzimmer, from booking i on
RECURSIVE availLoop(_, _, _, _, _)
availLoop(i, zimmerId, start, end, bookings) ==
  IF i > Len(bookings) THEN TRUE
  ELSE LET booking == bookings[i]
           bookingStart == parseDate(booking.check_in)
           bookingEnd == parseDate(booking.check_out)
       IN IF booking.zimmer_id # zimmerId
            THEN availLoop(i + 1, zimmerId, start, end, bookings)
          ELSE IF start < bookingEnd /\ end > bookingStart
            THEN IF end = bookingStart \/ start = bookingEnd
                   THEN availLoop(i + 1, zimmerId, start, end, bookings)
                   ELSE FALSE
          ELSE availLoop(i + 1, zimmerId, start, end, bookings)

\* a faulty isIntervalAvailableForzimmer: no shortcut for start = end
isIntervalAvailableForzimmer_NoSingleDay(zimmerId, start, end, bookings) ==
  IF zimmerId = NoRoom THEN FALSE
  ELSE availLoop(1, zimmerId, start, end, bookings)

isIntervalAvailableForzimmer(zimmerId, start, end, bookings) ==
  IF zimmerId = NoRoom THEN FALSE
  ELSE IF start = end THEN TRUE
  ELSE availLoop(1, zimmerId, start, end, bookings)

\* buchungen.find(...) || null: the first booking of the room whose
\* [parseDate(check_in), parseDate(check_out)] holds the cell's Date
getBuchungForDay(dayDate, zimmerId, buchungenList) ==
  LET hits == {i \in 1..Len(buchungenList) :
                 /\ buchungenList[i].zimmer_id = zimmerId
                 /\ dayDate >= parseDate(buchungenList[i].check_in)
                 /\ dayDate <= parseDate(buchungenList[i].check_out)}
  IN IF hits = {} THEN Null
     ELSE Some(buchungenList[CHOOSE i \in hits : \A k \in hits : i <= k])

(* ------------------------------- state -------------------------------- *)
VARIABLES
  tod,                   \* time of day of `new Date()` when the grid was generated
  tzOffset,              \* slots the device's local time is ahead of UTC
  buchungenTable,        \* remote table buchungen (rows in insertion order)
  gaesteTable,           \* remote table gaeste (guest names, id = position)
  buchungen,             \* App: the bookings snapshot handed to the calendar
  localBuchungen,        \* CalendarScreen: the filtered snapshot
  selectedzimmerId,      \* CalendarScreen selection: room id or NoRoom
  selectedCheckIn,       \* CalendarScreen selection: Null or Some(cell date)
  selectedCheckOut,      \* CalendarScreen selection: Null or Some(cell date)
  isBookingModalVisible, \* CalendarScreen: the booking form is open
  selectedBooking,       \* CalendarScreen: Null or Some(id) shown in the edit form
  pc,                    \* per session: position inside an asynchronous handler
  call,                  \* per session: the values the running handler captured
  alert,                 \* per session: the message the last handler run showed
  homeBuchungen,         \* HomeScreen: its own bookings snapshot
  selectedDate,          \* HomeScreen: the Date of the day overview
  zimmer,                \* CalendarScreen: the rooms snapshot (set of room ids)
  gaeste,                \* CalendarScreen: the guests snapshot (names, id = position)
  fetchPc                \* CalendarScreen: position inside a running fetchData

vars == <<tod, tzOffset, buchungenTable, gaesteTable, buchungen, localBuchungen,
          selectedzimmerId, selectedCheckIn, selectedCheckOut,
          isBookingModalVisible, selectedBooking, pc, call, alert,
          homeBuchungen, selectedDate, zimmer, gaeste, fetchPc>>

envVars == <<tod, tzOffset>>
storeVars == <<buchungenTable, gaesteTable>>
snapshotVars == <<buchungen, localBuchungen>>
selectionVars == <<selectedzimmerId, selectedCheckIn, selectedCheckOut>>
modalVars == <<isBookingModalVisible, selectedBooking>>
handlerVars == <<pc, call>>
homeVars == <<homeBuchungen, selectedDate>>
catalogVars == <<zimmer, gaeste, fetchPc>>

\* the sessions (devices) using the store; the calendar screen modelled in
\* detail is the one of session "s1"
Sessions == {"s1", "s2"}
Ui == "s1"

\* messages of Alert.alert / myAlert
NoAlert == "none"
AlertIntervalNotAvailable == "Das Intervall ist nicht verfuegbar."

\* a row of the buchungen table
Buchung(id, zimmerId, gast, checkIn, checkOut, personen, status, verpflegung, deleted) ==
  [id |-> id, zimmer_id |-> zimmerId, gast_id |-> gast,
   check_in |-> checkIn, check_out |-> checkOut,
   anzahl_personen |-> personen, status |-> status,
   verpflegung |-> verpflegung, deleted_at |-> deleted]

\* the grid of the calendar screen: useMemo(generateDaysArray(pastDays, futureMonths))
daysArray == generateDaysArray(Today * SlotsPerDay + tod, PastDays, FutureDays)
DayCells == {daysArray[i] : i \in 1..Len(daysArray)}

(* ------------------- CalendarScreen: selection by taps ----------------- *)
Show(s, msg) == alert' = [alert EXCEPT ![s] = msg]

StartSelection(day, zimmerId) ==
  /\ selectedzimmerId' = zimmerId
  /\ selectedCheckIn' = Some(day)
  /\ selectedCheckOut' = Some(day)

\* a faulty handleDayPress: any later day of the room is taken as check-out,
\* whether the interval is available or not
handleDayPress_AcceptsAnyLaterDay(day, zimmerId) ==
  IF IsNull(selectedCheckIn)
    THEN IF ~isIntervalAvailableForzimmer(zimmerId, day, day, localBuchungen)
           THEN UNCHANGED selectionVars /\ Show(Ui, NoAlert)
           ELSE StartSelection(day, zimmerId) /\ Show(Ui, NoAlert)
  ELSE IF selectedzimmerId # zimmerId
    THEN IF ~isIntervalAvailableForzimmer(zimmerId, day, day, localBuchungen)
           THEN UNCHANGED selectionVars /\ Show(Ui, NoAlert)
           ELSE StartSelection(day, zimmerId) /\ Show(Ui, NoAlert)
  ELSE IF isSameDay(day, Val(selectedCheckIn)) \/ day >= Val(selectedCheckIn)
    THEN /\ selectedCheckOut' = Some(day)
         /\ UNCHANGED <<selectedzimmerId, selectedCheckIn>>
         /\ Show(Ui, NoAlert)
  ELSE /\ selectedCheckIn' = Some(day)
       /\ selectedCheckOut' = Some(day)
       /\ UNCHANGED selectedzimmerId
       /\ Show(Ui, NoAlert)

\* a faulty handleDayPress: a tap in another room changes the room but keeps
\* the check-in of the old selection
handleDayPress_KeepsCheckInOnRoomSwitch(day, zimmerId) ==
  IF IsNull(selectedCheckIn)
    THEN IF ~isIntervalAvailableForzimmer(zimmerId, day, day, localBuchungen)
           THEN UNCHANGED selectionVars /\ Show(Ui, NoAlert)
           ELSE StartSelection(day, zimmerId) /\ Show(Ui, NoAlert)
  ELSE IF selectedzimmerId # zimmerId
    THEN /\ selectedzimmerId' = zimmerId
         /\ selectedCheckOut' = Some(day)
         /\ UNCHANGED selectedCheckIn
         /\ Show(Ui, NoAlert)
  ELSE IF isSameDay(day, Val(selectedCheckIn))
    THEN /\ selectedCheckOut' = Some(day)
         /\ UNCHANGED <<selectedzimmerId, selectedCheckIn>>
         /\ Show(Ui, NoAlert)
  ELSE IF day >= Val(selectedCheckIn)
    THEN LET isAvailable == isIntervalAvailableForzimmer(
                              zimmerId, Val(selectedCheckIn), day, localBuchungen)
             bookingAtDay == getBuchungForDay(day, zimmerId, localBuchungen)
         IN IF isAvailable \/ (~IsNull(bookingAtDay)
                                 /\ isSameDay(day, parseDate(Val(bookingAtDay).check_in)))
              THEN /\ selectedCheckOut' = Some(day)
                   /\ UNCHANGED <<selectedzimmerId, selectedCheckIn>>
                   /\ Show(Ui, NoAlert)
              ELSE /\ UNCHANGED selectionVars
                   /\ Show(Ui, AlertIntervalNotAvailable)
  ELSE /\ selectedCheckIn' = Some(day)
       /\ selectedCheckOut' = Some(day)
       /\ UNCHANGED selectedzimmerId
       /\ Show(Ui, NoAlert)

\* a faulty handleDayPress: a tap on the check-in day itself clears the
\* selection
handleDayPress_SameDayTapDeselects(day, zimmerId) ==
  IF IsNull(selectedCheckIn)
    THEN IF ~isIntervalAvailableForzimmer(zimmerId, day, day, localBuchungen)
           THEN UNCHANGED selectionVars /\ Show(Ui, NoAlert)
           ELSE StartSelection(day, zimmerId) /\ Show(Ui, NoAlert)
  ELSE IF selectedzimmerId # zimmerId
    THEN IF ~isIntervalAvailableForzimmer(zimmerId, day, day, localBuchungen)
           THEN UNCHANGED selectionVars /\ Show(Ui, NoAlert)
           ELSE StartSelection(day, zimmerId) /\ Show(Ui, NoAlert)
  ELSE IF isSameDay(day, Val(selectedCheckIn))
    THEN /\ selectedzimmerId' = NoRoom
         /\ selectedCheckIn' = Null
         /\ selectedCheckOut' = Null
         /\ Show(Ui, NoAlert)
  ELSE IF day >= Val(selectedCheckIn)
    THEN LET isAvailable == isIntervalAvailableForzimmer(
                              zimmerId, Val(selectedCheckIn), day, localBuchungen)
             bookingAtDay == getBuchungForDay(day, zimmerId, localBuchungen)
         IN IF isAvailable \/ (~IsNull(bookingAtDay)
                                 /\ isSameDay(day, parseDate(Val(bookingAtDay).check_in)))
              THEN /\ selectedCheckOut' = Some(day)
                   /\ UNCHANGED <<selectedzimmerId, selectedCheckIn>>
                   /\ Show(Ui, NoAlert)
              ELSE /\ UNCHANGED selectionVars
                   /\ Show(Ui, AlertIntervalNotAvailable)
  ELSE /\ selectedCheckIn' = Some(day)
       /\ selectedCheckOut' = Some(day)
       /\ UNCHANGED selectedzimmerId
       /\ Show(Ui, NoAlert)

\* a faulty handleDayPress: a tap before the check-in moves the check-in and
\* keeps the check-out
handleDayPress_EarlierDayKeepsCheckOut(day, zimmerId) ==
  IF IsNull(selectedCheckIn)
    THEN IF ~isIntervalAvailableForzimmer(zimmerId, day, day, localBuchungen)
           THEN UNCHANGED selectionVars /\ Show(Ui, NoAlert)
           ELSE StartSelection(day, zimmerId) /\ Show(Ui, NoAlert)
  ELSE IF selectedzimmerId # zimmerId
    THEN IF ~isIntervalAvailableForzimmer(zimmerId, day, day, localBuchungen)
           THEN UNCHANGED selectionVars /\ Show(Ui, NoAlert)
           ELSE StartSelection(day, zimmerId) /\ Show(Ui, NoAlert)
  ELSE IF isSameDay(day, Val(selectedCheckIn))
    THEN /\ selectedCheckOut' = Some(day)
         /\ UNCHANGED <<selectedzimmerId, selectedCheckIn>>
         /\ Show(Ui, NoAlert)
  ELSE IF day >= Val(selectedCheckIn)
    THEN LET isAvailable == isIntervalAvailableForzimmer(
                              zimmerId, Val(selectedCheckIn), day, localBuchungen)
             bookingAtDay == getBuchungForDay(day, zimmerId, localBuchungen)
         IN IF isAvailable \/ (~IsNull(bookingAtDay)
                                 /\ isSameDay(day, parseDate(Val(bookingAtDay).check_in)))
              THEN /\ selectedCheckOut' = Some(day)
                   /\ UNCHANGED <<selectedzimmerId, selectedCheckIn>>
                   /\ Show(Ui, NoAlert)
              ELSE /\ UNCHANGED selectionVars
                   /\ Show(Ui, AlertIntervalNotAvailable)
  ELSE /\ selectedCheckIn' = Some(day)
       /\ UNCHANGED <<selectedzimmerId, selectedCheckOut>>
       /\ Show(Ui, NoAlert)

handleDayPress(day, zimmerId) ==
  IF IsNull(selectedCheckIn)
    THEN IF ~isIntervalAvailableForzimmer(zimmerId, day, day, localBuchungen)
           THEN UNCHANGED selectionVars /\ Show(Ui, NoAlert)
           ELSE StartSelection(day, zimmerId) /\ Show(Ui, NoAlert)
  ELSE IF selectedzimmerId # zimmerId
    THEN IF ~isIntervalAvailableForzimmer(zimmerId, day, day, localBuchungen)
           THEN UNCHANGED selectionVars /\ Show(Ui, NoAlert)
           ELSE StartSelection(day, zimmerId) /\ Show(Ui, NoAlert)
  ELSE IF isSameDay(day, Val(selectedCheckIn))
    THEN /\ selectedCheckOut' = Some(day)
         /\ UNCHANGED <<selectedzimmerId, selectedCheckIn>>
         /\ Show(Ui, NoAlert)
  ELSE IF day >= Val(selectedCheckIn)
    THEN LET isAvailable == isIntervalAvailableForzimmer(
                              zimmerId, Val(selectedCheckIn), day, localBuchungen)
             bookingAtDay == getBuchungForDay(day, zimmerId, localBuchungen)
         IN IF isAvailable \/ (~IsNull(bookingAtDay)
                                 /\ isSameDay(day, parseDate(Val(bookingAtDay).check_in)))
              THEN /\ selectedCheckOut' = Some(day)
                   /\ UNCHANGED <<selectedzimmerId, selectedCheckIn>>
                   /\ Show(Ui, NoAlert)
              ELSE /\ UNCHANGED selectionVars
                   /\ Show(Ui, AlertIntervalNotAvailable)
  ELSE /\ selectedCheckIn' = Some(day)
       /\ selectedCheckOut' = Some(day)
       /\ UNCHANGED selectedzimmerId
       /\ Show(Ui, NoAlert)

\* the onPress of a DayCell of the grid: the tap-eligibility filter, then
\* handleDayPress
DayCellOnPress(day, zimmerId) ==
  /\ ~isBookingModalVisible
  /\ IsNull(selectedBooking)
  /\ LET existingBooking == getBuchungForDay(day, zimmerId, localBuchungen)
     IN IF IsNull(selectedCheckIn) /\ ~IsNull(existingBooking)
          THEN UNCHANGED <<selectionVars, alert>>
          ELSE handleDayPress(day, zimmerId)
  /\ UNCHANGED <<envVars, storeVars, snapshotVars, modalVars, handlerVars, homeVars, catalogVars>>

(* ------------- specification of the selection state machine ------------ *)
\* the booking lists the calendar can hold: rows of any rooms and dates of the
\* window, none of them soft-deleted
SnapshotRows ==
  {Buchung(0, z, 0, ci, co, 1, "belegt", "Fruehstueck", FALSE) :
     z \in Rooms, ci \in Days, co \in Days}

WithIds(rows) == [i \in 1..Len(rows) |-> [rows[i] EXCEPT !.id = i]]

Snapshots ==
  {WithIds(rows) : rows \in UNION {[1..n -> SnapshotRows] : n \in 0..MaxSnapshot}}

IdleHandlers ==
  /\ pc = [s \in Sessions |-> "idle"]
  /\ call = [s \in Sessions |-> Null]
  /\ alert = [s \in Sessions |-> NoAlert]

\* the calendar's rooms and guests state once the fetchData of its mount has
\* loaded the rooms, with no guest in the store yet and no fetchData running
CatalogLoaded ==
  /\ zimmer = Rooms
  /\ gaeste = <<>>
  /\ fetchPc = "idle"

EmptySelection ==
  /\ selectedzimmerId = NoRoom
  /\ selectedCheckIn = Null
  /\ selectedCheckOut = Null

InitSel ==
  /\ tod \in TimesOfDay
  /\ tzOffset = 0
  /\ buchungenTable = <<>>
  /\ gaesteTable = <<>>
  /\ buchungen \in Snapshots
  /\ localBuchungen = buchungen
  /\ EmptySelection
  /\ isBookingModalVisible = FALSE
  /\ selectedBooking = Null
  /\ IdleHandlers
  /\ homeBuchungen = <<>>
  /\ CatalogLoaded
  /\ selectedDate = 0

NextSel == \E day \in DayCells, zimmerId \in Rooms : DayCellOnPress(day, zimmerId)

SpecSel == InitSel /\ [][NextSel]_vars

(* ------------------- claims on the selection machine ------------------- *)
OfRoom(list, zimmerId) == SelectSeq(list, LAMBDA b : b.zimmer_id = zimmerId)

\* a booking blocks [start, end] as the specification words it: the
\* half-open overlap test holds and the two do not abut
Blocks(b, start, end) ==
  /\ start < parseDate(b.check_out)
  /\ end > parseDate(b.check_in)
  /\ ~(end = parseDate(b.check_in) \/ start = parseDate(b.check_out))

\* C2: for a present room id and start # end, isIntervalAvailableForzimmer
\* is false exactly when some booking of that room in the list overlaps
\* [start, end] (start < bookingEnd and end > bookingStart) without abutting
\* it, and the bookings of other rooms do not change the result.
C2_AvailableIffNoOverlap ==
  \A z \in Rooms, start \in DayCells, end \in DayCells :
    start # end =>
      /\ isIntervalAvailableForzimmer(z, start, end, localBuchungen)
           = ~(\E i \in 1..Len(localBuchungen) :
                 /\ localBuchungen[i].zimmer_id = z
                 /\ Blocks(localBuchungen[i], start, end))
      /\ isIntervalAvailableForzimmer(z, start, end, localBuchungen)
           = isIntervalAvailableForzimmer(z, start, end, OfRoom(localBuchungen, z))

\* C2 witness: a tap has been rejected because the interval from the check-in
\* to the tapped day is blocked, while the list also holds a booking of the
\* other room that overlaps the same interval
C2_Witness ==
  /\ alert[Ui] = AlertIntervalNotAvailable
  /\ \E i \in 1..Len(localBuchungen), end \in DayCells :
       /\ localBuchungen[i].zimmer_id # selectedzimmerId
       /\ Blocks(localBuchungen[i], Val(selectedCheckIn), end)
       /\ ~isIntervalAvailableForzimmer(selectedzimmerId, Val(selectedCheckIn),
                                        end, localBuchungen)

\* the candidate [start, end] of two grid cells on different days meets the
\* bookings of the room at most in a shared boundary day, and meets one
TouchesOnly(z, start, end, list) ==
  /\ LocalDay(start) < LocalDay(end)
  /\ \A i \in 1..Len(list) :
       list[i].zimmer_id = z =>
         /\ list[i].check_in <= list[i].check_out
         /\ \/ LocalDay(end) <= list[i].check_in
            \/ LocalDay(start) >= list[i].check_out
  /\ \E i \in 1..Len(list) :
       /\ list[i].zimmer_id = z
       /\ \/ LocalDay(end) = list[i].check_in
          \/ LocalDay(start) = list[i].check_out

\* C3: a candidate of two grid cells that touches the bookings of the room
\* only at a shared boundary day is accepted by isIntervalAvailableForzimmer,
\* in both directions, whatever time of day the cells carry.
C3_AbutmentAccepted ==
  \A z \in Rooms, start \in DayCells, end \in DayCells :
    TouchesOnly(z, start, end, localBuchungen) =>
      isIntervalAvailableForzimmer(z, start, end, localBuchungen)

\* C9: with a check-in c selected in room r, a tap on a later day d of the
\* same room sets the check-out to d (room and check-in unchanged) exactly
\* when isIntervalAvailableForzimmer(r, c, d) holds or the booking found on d
\* checks in on d; otherwise the tap raises the "interval not available"
\* alert and leaves room, check-in and check-out unchanged.
C9_LaterDayTap ==
  [][\A day \in DayCells, z \in Rooms :
       ( /\ DayCellOnPress(day, z)
         /\ ~IsNull(selectedCheckIn)
         /\ selectedzimmerId = z
         /\ LocalDay(day) > LocalDay(Val(selectedCheckIn)) )
       => LET bookingAtDay == getBuchungForDay(day, z, localBuchungen)
              accepted ==
                \/ isIntervalAvailableForzimmer(z, Val(selectedCheckIn), day,
                                                localBuchungen)
                \/ /\ ~IsNull(bookingAtDay)
                   /\ Val(bookingAtDay).check_in = LocalDay(day)
          IN IF accepted
               THEN /\ selectedCheckOut' = Some(day)
                    /\ selectedCheckIn' = selectedCheckIn
                    /\ selectedzimmerId' = z
                    /\ alert'[Ui] # AlertIntervalNotAvailable
               ELSE /\ alert'[Ui] = AlertIntervalNotAvailable
                    /\ UNCHANGED selectionVars]_vars

\* C9 witness: a range whose check-out was accepted only because a booking
\* checks in on that day (the interval itself is not available), next to a
\* rejected tap
C9_Witness ==
  /\ ~IsNull(selectedCheckIn)
  /\ LocalDay(Val(selectedCheckOut)) > LocalDay(Val(selectedCheckIn))
  /\ ~isIntervalAvailableForzimmer(selectedzimmerId, Val(selectedCheckIn),
                                   Val(selectedCheckOut), localBuchungen)
  /\ alert[Ui] = AlertIntervalNotAvailable

\* C10: from a non-empty selection in room A, a tap on a day D2 of another
\* room B that is available as a single day yields the selection (B, D2, D2):
\* room, check-in and check-out of the room-A selection are all replaced.
C10_RoomSwitch ==
  [][\A day \in DayCells, z \in Rooms :
       ( /\ DayCellOnPress(day, z)
         /\ ~IsNull(selectedCheckIn)
         /\ selectedzimmerId # z
         /\ isIntervalAvailableForzimmer(z, day, day, localBuchungen) )
       => /\ selectedzimmerId' = z
          /\ selectedCheckIn' = Some(day)
          /\ selectedCheckOut' = Some(day)]_vars

\* C10 witness: a single-day selection in a room every cell of which lies in
\* a booking, so that no selection of that room starts from the empty state:
\* it was reached by switching from the other room
C10_Witness ==
  /\ selectedzimmerId \in Rooms
  /\ selectedCheckIn = selectedCheckOut
  /\ ~IsNull(selectedCheckIn)
  /\ \A day \in DayCells :
       ~IsNull(getBuchungForDay(day, selectedzimmerId, localBuchungen))
  /\ \E i \in 1..Len(localBuchungen) : localBuchungen[i].zimmer_id # selectedzimmerId

\* the selection states
SelectionEmpty ==
  selectedzimmerId = NoRoom /\ IsNull(selectedCheckIn) /\ IsNull(selectedCheckOut)

CheckInOnly ==
  /\ selectedzimmerId \in Rooms
  /\ ~IsNull(selectedCheckIn) /\ ~IsNull(selectedCheckOut)
  /\ isSameDay(Val(selectedCheckIn), Val(selectedCheckOut))

RangeSelected ==
  /\ selectedzimmerId \in Rooms
  /\ ~IsNull(selectedCheckIn) /\ ~IsNull(selectedCheckOut)
  /\ LocalDay(Val(selectedCheckIn)) < LocalDay(Val(selectedCheckOut))

\* C11: from the empty selection a tap on a free day D of room r gives the
\* selection (r, D, D); a further tap on the same day D of room r in that
\* state leaves check-in = check-out = D in room r and gives no range.
C11_SameDayTapStaysCheckInOnly ==
  [][\A day \in DayCells, z \in Rooms :
       /\ ( /\ DayCellOnPress(day, z)
            /\ SelectionEmpty
            /\ IsNull(getBuchungForDay(day, z, localBuchungen))
            /\ isIntervalAvailableForzimmer(z, day, day, localBuchungen) )
          => /\ selectedzimmerId' = z
             /\ selectedCheckIn' = Some(day)
             /\ selectedCheckOut' = Some(day)
       /\ ( /\ DayCellOnPress(day, z)
            /\ CheckInOnly
            /\ selectedzimmerId = z
            /\ isSameDay(day, Val(selectedCheckIn)) )
          => /\ selectedzimmerId' = z
             /\ selectedCheckIn' = Some(day)
             /\ selectedCheckOut' = Some(day)
             /\ ~RangeSelected']_vars

\* C11 witness: a single-day selection on a free day of a room that has a
\* booking on another day
C11_Witness ==
  /\ CheckInOnly
  /\ IsNull(getBuchungForDay(Val(selectedCheckIn), selectedzimmerId, localBuchungen))
  /\ \E i \in 1..Len(localBuchungen) : localBuchungen[i].zimmer_id = selectedzimmerId

\* C12: with a check-in c selected in room r, a tap on a day d before c in
\* the same room restarts the selection as a tap from the empty state does:
\* the single-day availability check of (r, d, d) passes and the selection
\* becomes (r, d, d), whatever check-out was selected before.
C12_EarlierDayRestarts ==
  [][\A day \in DayCells, z \in Rooms :
       ( /\ DayCellOnPress(day, z)
         /\ ~IsNull(selectedCheckIn)
         /\ selectedzimmerId = z
         /\ LocalDay(day) < LocalDay(Val(selectedCheckIn)) )
       => /\ isIntervalAvailableForzimmer(z, day, day, localBuchungen)
          /\ selectedzimmerId' = z
          /\ selectedCheckIn' = Some(day)
          /\ selectedCheckOut' = Some(day)]_vars

\* C12 witness: a single-day selection on a day that lies in a booking of
\* the room while the other room has no free day: it was not started from the
\* empty state nor by a switch of rooms, but by a tap before the check-in
C12_Witness ==
  /\ CheckInOnly
  /\ ~IsNull(getBuchungForDay(Val(selectedCheckIn), selectedzimmerId, localBuchungen))
  /\ \A z \in Rooms \ {selectedzimmerId} : \A day \in DayCells :
       ~IsNull(getBuchungForDay(day, z, localBuchungen))

\* C13: from the empty selection, the cell of a day that is the check-out
\* day of a booking of the room, and lies in no other booking of the room,
\* can be tapped to start a selection: the cell's filter lets the tap through
\* (no booking is found on the cell) and handleDayPress's check passes.
C13_StartOnCheckOutDay ==
  \A day \in DayCells, z \in Rooms :
    ( \E i \in 1..Len(localBuchungen) :
        /\ localBuchungen[i].zimmer_id = z
        /\ localBuchungen[i].check_in < localBuchungen[i].check_out
        /\ localBuchungen[i].check_out = LocalDay(day)
        /\ \A j \in 1..Len(localBuchungen) :
             (j # i /\ localBuchungen[j].zimmer_id = z)
             => \/ LocalDay(day) < localBuchungen[j].check_in
                \/ LocalDay(day) > localBuchungen[j].check_out )
    => /\ IsNull(getBuchungForDay(day, z, localBuchungen))
       /\ isIntervalAvailableForzimmer(z, day, day, localBuchungen)

\* every Date of the window, at any time of day
WindowDates == 0..((PastDays + FutureDays + 1) * SlotsPerDay - 1)

\* C20: isIntervalAvailableForzimmer(room, d, d, bookings) is true for every
\* date d and every room id, also when d lies strictly inside a booking of
\* the room.
C20_SingleDayAlwaysAvailable ==
  \A z \in Rooms, d \in WindowDates :
    isIntervalAvailableForzimmer(z, d, d, localBuchungen)

\* C20 witness: a selection was started on a day strictly inside a booking
\* of the room
C20_Witness ==
  /\ ~IsNull(selectedCheckIn)
  /\ selectedCheckIn = selectedCheckOut
  /\ \E i \in 1..Len(localBuchungen) :
       /\ localBuchungen[i].zimmer_id = selectedzimmerId
       /\ parseDate(localBuchungen[i].check_in) < Val(selectedCheckIn)
       /\ LocalDay(Val(selectedCheckIn)) < localBuchungen[i].check_out

\* C21: for every day cell of the grid and every room, getBuchungForDay
\* returns a booking of that room if and only if the cell's calendar day lies
\* in the inclusive range [check_in, check_out] of some booking of the room,
\* and the booking returned is one whose range holds that day.
C21_BookingAtDayIffInRange ==
  \A day \in DayCells, z \in Rooms :
    LET found == getBuchungForDay(day, z, localBuchungen)
        InRange(b) == /\ b.zimmer_id = z
                      /\ b.check_in <= LocalDay(day)
                      /\ LocalDay(day) <= b.check_out
    IN /\ ~IsNull(found) <=> \E i \in 1..Len(localBuchungen) : InRange(localBuchungen[i])
       /\ ~IsNull(found) => InRange(Val(found))

\* C22: generateDaysArray(p, f) returns cells whose calendar days start at
\* today - p and go up one day per cell, and findDayIndex applied to the date
\* of the cell at position i returns i, for every position i.
C22_GridContiguousAndIndexed ==
  \A p \in 0..PastDays, f \in 0..FutureDays :
    LET days == generateDaysArray(Today * SlotsPerDay + tod, p, f)
    IN /\ Len(days) >= 1
       /\ LocalDay(days[1]) = Today - p
       /\ \A i \in 1..(Len(days) - 1) : LocalDay(days[i + 1]) = LocalDay(days[i]) + 1
       /\ \A i \in 1..Len(days) : findDayIndex(days[i], days) = i

\* C22 witness: the grid of the screen generated later than midnight, with a
\* cell for every day of the window, its last cell found at the last position
C22_Witness ==
  /\ tod > 0
  /\ Len(daysArray) = PastDays + FutureDays + 1
  /\ findDayIndex(daysArray[Len(daysArray)], daysArray) = Len(daysArray)
  /\ ~IsNull(selectedCheckIn)
  /\ findDayIndex(Val(selectedCheckIn), daysArray) > 0

\* C28: in every reachable RangeSelected state (room r, check-in c before
\* check-out d), the selected interval does not overlap the interior of any
\* booking of room r in the local snapshot: no booking b of r has
\* c < b.check_out and d > b.check_in.
C28_RangeClearOfBookings ==
  RangeSelected =>
    LET c == LocalDay(Val(selectedCheckIn))
        d == LocalDay(Val(selectedCheckOut))
    IN \A i \in 1..Len(localBuchungen) :
         LET b == localBuchungen[i]
         IN (b.zimmer_id = selectedzimmerId /\ b.check_in <= b.check_out)
              => ~(c < b.check_out /\ d > b.check_in)

\* C29: in every reachable non-empty selection state, reached by taps on the
\* cells of the grid against a fixed snapshot, the selected check-in day does
\* not lie strictly inside (after the check-in day and before the check-out
\* day of) any booking of the selected room.
C29_CheckInNotInsideBooking ==
  ~IsNull(selectedCheckIn) =>
    \A i \in 1..Len(localBuchungen) :
      LET b == localBuchungen[i]
      IN b.zimmer_id = selectedzimmerId
           => ~( /\ b.check_in < LocalDay(Val(selectedCheckIn))
                 /\ LocalDay(Val(selectedCheckIn)) < b.check_out )

(* ------------------ CalendarScreen: the booking blocks ----------------- *)
\* width of a day column in pixels
DAY_WIDTH == 60

\* BookingBlockRow, for one booking of the row: no block (Null) when the
\* check-in or the check-out day has no cell in the grid, else the block's
\* left edge and width. The columns are counted from 0 as in the code.
bookingBlock(b, days) ==
  LET startIndex == findDayIndex(parseDate(b.check_in), days) - 1
      endIndex == findDayIndex(parseDate(b.check_out), days) - 1
  IN IF startIndex < 0 \/ endIndex < 0 THEN Null
     ELSE IF startIndex = endIndex
       THEN Some([left |-> startIndex * DAY_WIDTH + DAY_WIDTH \div 2,
                  width |-> DAY_WIDTH \div 2])
     ELSE Some([left |-> startIndex * DAY_WIDTH + DAY_WIDTH \div 2,
                width |-> (endIndex - startIndex + 1) * DAY_WIDTH - DAY_WIDTH])

\* the blocks drawn in the row of a room: those of localBuchungen.filter(
\* b => b.zimmer_id === zimmer.id)
RowBookings(zimmerId) == SelectSeq(localBuchungen, LAMBDA b : b.zimmer_id = zimmerId)

(* ------- specification: the grid over bookings reaching past it -------- *)
\* the days a booking of the snapshot can start or end on: the days of the
\* window and one day before and after it
ExtendedDays == (0 - 1)..(PastDays + FutureDays + 1)

GridRows ==
  {Buchung(1, z, 0, ci, co, 1, "belegt", "Fruehstueck", FALSE) :
     z \in Rooms, ci \in ExtendedDays, co \in ExtendedDays}

GridSnapshots == {<<>>} \cup {<<r>> : r \in {g \in GridRows : g.check_in <= g.check_out}}

InitGrid ==
  /\ tod \in TimesOfDay
  /\ tzOffset = 0
  /\ buchungenTable = <<>>
  /\ gaesteTable = <<>>
  /\ buchungen \in GridSnapshots
  /\ localBuchungen = buchungen
  /\ EmptySelection
  /\ isBookingModalVisible = FALSE
  /\ selectedBooking = Null
  /\ IdleHandlers
  /\ homeBuchungen = <<>>
  /\ CatalogLoaded
  /\ selectedDate = 0

SpecGrid == InitGrid /\ [][NextSel]_vars

\* the column (counted from 0) of the cell of a day of the window
Column(d) == d - LocalDay(daysArray[1])

\* C25: with day-cell width W, the block of a booking whose check-in and
\* check-out are at columns i < j starts at the centre of column i
\* (left = i*W + W/2) and ends at the centre of column j (width = (j - i)*W);
\* the block of a single-day booking at column i has width W/2 and is
\* centred in column i (its middle is the middle of the column).
C25_BlockGeometry ==
  \A z \in Rooms :
    \A n \in 1..Len(RowBookings(z)) :
      LET b == RowBookings(z)[n]
          i == Column(b.check_in)
          j == Column(b.check_out)
          block == bookingBlock(b, daysArray)
      IN (b.check_in \in Days /\ b.check_out \in Days) =>
           /\ ~IsNull(block)
           /\ i < j => /\ Val(block).left = i * DAY_WIDTH + DAY_WIDTH \div 2
                       /\ Val(block).width = (j - i) * DAY_WIDTH
           /\ i = j => /\ Val(block).width = DAY_WIDTH \div 2
                       /\ 2 * Val(block).left + Val(block).width
                            = 2 * i * DAY_WIDTH + DAY_WIDTH

\* C26: every booking of a room whose inclusive range [check_in, check_out]
\* intersects the grid window gets a block in that room's row, also when it
\* starts before the first day of the grid or ends after the last one.
C26_IntersectingBookingsRendered ==
  \A z \in Rooms :
    \A n \in 1..Len(RowBookings(z)) :
      LET b == RowBookings(z)[n]
      IN ( /\ b.check_in <= b.check_out
           /\ \E d \in Days : b.check_in <= d /\ d <= b.check_out )
         => ~IsNull(bookingBlock(b, daysArray))

(* ---------------------------- the remote store ------------------------- *)
\* longest buchungen table, longest gaeste table
MaxBookings == 2
MaxGuests == 2

AlertNoRoom == "Kein Zimmer ausgewaehlt."
AlertNameParts == "Bitte Vor- und Nachname eingeben."
AlertGuestNotCreated == "Gast konnte nicht erstellt werden."
AlertRoomTaken == "Das Zimmer ist im angegebenen Zeitraum bereits vergeben."
AlertStoreError == "error.message"
AlertCreated == "Buchung erstellt!"
AlertSoftDeleted == "Buchung wurde soft-deleted!"
AlertSelectDates == "Bitte Check-In und Check-Out auswaehlen."
AlertDifferentDays == "Bitte waehlen Sie unterschiedliche Tage."

\* what the user types into the name field: first and last name, or one token
ValidName == "Anna Berg"
OneTokenName == "Anna"
NameTokens(name) == IF name = OneTokenName THEN 1 ELSE 2

\* select ... from gaeste where vorname = .. and nachname = ..: the ids found
GuestIds(name) == {i \in 1..Len(gaesteTable) : gaesteTable[i] = name}
FirstGuestId(name) == CHOOSE i \in GuestIds(name) : \A k \in GuestIds(name) : i <= k

\* App.syncFullBuchungen's query: select * from buchungen where deleted_at is null
SelectNotDeleted(table) == SelectSeq(table, LAMBDA b : ~b.deleted_at)

\* CalendarScreen's effect on [buchungen]: buchungen.filter(b => !b.deleted_at)
FilterLocal(list) == SelectSeq(list, LAMBDA b : ~b.deleted_at)

\* validateRoomAvailability's query: the non-deleted rows of the room with
\* check_in < newCheckOut and check_out > newCheckIn
ConflictingRows(table, roomId, newCheckIn, newCheckOut) ==
  {i \in 1..Len(table) :
     /\ table[i].zimmer_id = roomId
     /\ ~table[i].deleted_at
     /\ table[i].check_in < newCheckOut
     /\ table[i].check_out > newCheckIn}

\* insert into buchungen: the table with the new row at its end
InsertBuchung(table, zimmerId, gast, checkIn, checkOut, personen, status, verpflegung) ==
  Append(table, Buchung(Len(table) + 1, zimmerId, gast, checkIn, checkOut,
                        personen, status, verpflegung, FALSE))

\* update buchungen set deleted_at = now where id = ..
SoftDelete(table, id) ==
  [i \in 1..Len(table) |->
     IF table[i].id = id THEN [table[i] EXCEPT !.deleted_at = TRUE] ELSE table[i]]

(* ------------------ App.syncFullBuchungen and its effect --------------- *)
\* a faulty load: neither the query nor the calendar's effect filters on
\* deleted_at
SnapshotLoaded_Unfiltered ==
  /\ buchungen' = buchungenTable
  /\ localBuchungen' = buchungenTable

\* the request succeeded: setBuchungen(data), and the calendar's effect on
\* [buchungen] recomputes localBuchungen
SnapshotLoaded ==
  /\ buchungen' = SelectNotDeleted(buchungenTable)
  /\ localBuchungen' = FilterLocal(SelectNotDeleted(buchungenTable))

\* one run of syncFullBuchungen (the 2-minute interval, the focus refresh, or
\* an onRefresh of a handler): offline, an error result or an exception leave
\* the snapshot as it is
syncFullBuchungen(ok) ==
  IF ok THEN SnapshotLoaded ELSE UNCHANGED snapshotVars

\* a faulty refresh of the bookings that resets the selection
SyncFullBuchungen_ClearsSelection ==
  /\ pc[Ui] = "idle"
  /\ \E ok \in BOOLEAN : syncFullBuchungen(ok)
  /\ selectedzimmerId' = NoRoom
  /\ selectedCheckIn' = Null
  /\ selectedCheckOut' = Null
  /\ UNCHANGED <<envVars, storeVars, modalVars, handlerVars, alert, homeVars,
                 catalogVars>>

SyncFullBuchungen ==
  /\ pc[Ui] = "idle"
  /\ \E ok \in BOOLEAN : syncFullBuchungen(ok)
  /\ UNCHANGED <<envVars, storeVars, selectionVars, modalVars, handlerVars, alert,
                 homeVars, catalogVars>>

(* ---------------- CalendarScreen: the booking form modal --------------- *)
\* the "Buchungsformular oeffnen" button is rendered only for a range of two
\* different days; its onPress is openBookingModal
BookingButtonVisible ==
  /\ ~IsNull(selectedCheckIn)
  /\ ~IsNull(selectedCheckOut)
  /\ ~isSameDay(Val(selectedCheckIn), Val(selectedCheckOut))

openBookingModal ==
  IF IsNull(selectedCheckIn) \/ IsNull(selectedCheckOut) \/ selectedzimmerId = NoRoom
    THEN UNCHANGED isBookingModalVisible /\ Show(Ui, AlertSelectDates)
  ELSE IF ~isSameDay(Val(selectedCheckIn), Val(selectedCheckOut))
    THEN isBookingModalVisible' = TRUE /\ Show(Ui, NoAlert)
  ELSE UNCHANGED isBookingModalVisible /\ Show(Ui, AlertDifferentDays)

OpenBookingModal ==
  /\ ~isBookingModalVisible
  /\ IsNull(selectedBooking)
  /\ BookingButtonVisible
  /\ openBookingModal
  /\ UNCHANGED <<envVars, storeVars, snapshotVars, selectionVars, selectedBooking,
                 handlerVars, homeVars, catalogVars>>

\* onClose of the booking form (Abbrechen, backdrop press)
CloseBookingModal ==
  /\ isBookingModalVisible
  /\ pc[Ui] = "idle"
  /\ isBookingModalVisible' = FALSE
  /\ Show(Ui, NoAlert)
  /\ UNCHANGED <<envVars, storeVars, snapshotVars, selectionVars, selectedBooking,
                 handlerVars, homeVars, catalogVars>>

\* the props CalendarScreen hands to BookingFormModal: checkIn and checkOut
\* are the ISO dates of the selected cells; the room is passed under the name
\* selectedzimmerId, which is no prop of the modal, so that the modal's
\* selectedRoomId stays undefined
CalendarFormCheckIn == toISODate(Val(selectedCheckIn), tzOffset)
CalendarFormCheckOut == toISODate(Val(selectedCheckOut), tzOffset)
CalendarFormRoomId == NoRoom

(* ------------------- BookingFormModal.handleCreate --------------------- *)
\* handleCreate runs in steps, one per awaited request; call[s] holds the
\* props and form values the callback captured and the guest id it found.
CreatePcs == {"guestSelect", "guestInsert", "validate", "insert", "refresh"}
InFlight == Cardinality({t \in Sessions : pc[t] \in CreatePcs \ {"refresh"}})

Goto(s, label) == pc' = [pc EXCEPT ![s] = label]
Return(s) == pc' = [pc EXCEPT ![s] = "idle"] /\ call' = [call EXCEPT ![s] = Null]
Frame(s) == Val(call[s])
SetGuest(s, id) == call' = [call EXCEPT ![s] = Some([Frame(s) EXCEPT !.guestId = id])]

\* the press of "Buchung erstellen" up to the first request. The button is
\* disabled unless the form is valid (two name tokens, a positive count).
handleCreate_Start(s, selectedRoomId, checkIn, checkOut, guestName, personCount) ==
  /\ pc[s] = "idle"
  /\ NameTokens(guestName) >= 2 /\ personCount > 0
  /\ Len(buchungenTable) + InFlight < MaxBookings
  /\ IF selectedRoomId = NoRoom
       THEN Show(s, AlertNoRoom) /\ UNCHANGED handlerVars
       ELSE /\ Goto(s, "guestSelect")
            /\ call' = [call EXCEPT ![s] =
                 Some([roomId |-> selectedRoomId, checkIn |-> checkIn,
                       checkOut |-> checkOut, guestName |-> guestName,
                       count |-> personCount, guestId |-> 0])]
            /\ Show(s, NoAlert)

\* select id from gaeste by first and last name; an error is only logged and
\* leaves existingGuest null, like a name that is not found
handleCreate_GuestSelect(s) ==
  /\ pc[s] = "guestSelect"
  /\ \E ok \in BOOLEAN :
       /\ ~ok => Len(gaesteTable) < MaxGuests
       /\ IF ok /\ GuestIds(Frame(s).guestName) # {}
            THEN SetGuest(s, FirstGuestId(Frame(s).guestName)) /\ Goto(s, "validate")
            ELSE Goto(s, "guestInsert") /\ UNCHANGED call
  /\ UNCHANGED <<envVars, storeVars, snapshotVars, selectionVars, modalVars, alert,
                 homeVars, catalogVars>>

\* insert into gaeste ... select single
handleCreate_GuestInsert(s) ==
  /\ pc[s] = "guestInsert"
  /\ \E ok \in BOOLEAN :
       IF ok
         THEN /\ gaesteTable' = Append(gaesteTable, Frame(s).guestName)
              /\ SetGuest(s, Len(gaesteTable) + 1)
              /\ Goto(s, "validate")
              /\ UNCHANGED alert
         ELSE /\ Show(s, AlertGuestNotCreated)
              /\ Return(s)
              /\ UNCHANGED gaesteTable
  /\ UNCHANGED <<envVars, buchungenTable, snapshotVars, selectionVars, modalVars,
                 homeVars, catalogVars>>

\* validateRoomAvailability and the branch on its result
validateRoomAvailability(ok, roomId, newCheckIn, newCheckOut) ==
  ok /\ ConflictingRows(buchungenTable, roomId, newCheckIn, newCheckOut) = {}

handleCreate_Validate(s) ==
  /\ pc[s] = "validate"
  /\ \E ok \in BOOLEAN :
       IF validateRoomAvailability(ok, Frame(s).roomId, Frame(s).checkIn,
                                   Frame(s).checkOut)
         THEN Goto(s, "insert") /\ UNCHANGED <<call, alert>>
         ELSE Show(s, AlertRoomTaken) /\ Return(s)
  /\ UNCHANGED <<envVars, storeVars, snapshotVars, selectionVars, modalVars, homeVars, catalogVars>>

\* insert into buchungen; on success onClose() and then await onRefresh()
handleCreate_Insert(s) ==
  /\ pc[s] = "insert"
  /\ \E ok \in BOOLEAN :
       IF ok
         THEN /\ buchungenTable' =
                   InsertBuchung(buchungenTable, Frame(s).roomId, Frame(s).guestId,
                                 Frame(s).checkIn, Frame(s).checkOut, Frame(s).count,
                                 "belegt", "Fruehstueck")
              /\ Show(s, AlertCreated)
              /\ isBookingModalVisible' =
                   IF s = Ui THEN FALSE ELSE isBookingModalVisible
              /\ Goto(s, "refresh") /\ UNCHANGED call
         ELSE /\ Show(s, AlertStoreError)
              /\ Return(s)
              /\ UNCHANGED <<buchungenTable, isBookingModalVisible>>
  /\ UNCHANGED <<envVars, gaesteTable, snapshotVars, selectionVars, selectedBooking,
                 homeVars, catalogVars>>

\* await onRefresh(): syncFullBuchungen of the session's App
handleCreate_Refresh(s) ==
  /\ pc[s] = "refresh"
  /\ IF s = Ui
       THEN \E ok \in BOOLEAN : syncFullBuchungen(ok)
       ELSE UNCHANGED snapshotVars
  /\ Return(s)
  /\ UNCHANGED <<envVars, storeVars, selectionVars, modalVars, alert, homeVars, catalogVars>>

(* ---------------- BookingEditModal: update and soft delete -------------- *)
AlertUpdated == "Buchung aktualisiert!"

\* update buchungen set check_in, check_out, anzahl_personen, ... where id = ..
UpdateBuchung(table, id, checkIn, checkOut, personen) ==
  [i \in 1..Len(table) |->
     IF table[i].id = id
       THEN [table[i] EXCEPT !.check_in = checkIn, !.check_out = checkOut,
                             !.anzahl_personen = personen]
       ELSE table[i]]

\* handleUpdate of the edit form opened on booking id, with the dates and the
\* count typed into it: one update request, then onRefresh and onClose
handleUpdate(s, id, checkIn, checkOut, personCount) ==
  /\ pc[s] = "idle"
  /\ personCount > 0
  /\ \E ok \in BOOLEAN :
       IF ok
         THEN /\ buchungenTable' =
                   UpdateBuchung(buchungenTable, id, checkIn, checkOut, personCount)
              /\ Show(s, AlertUpdated)
              /\ IF s = Ui
                   THEN /\ \E okRefresh \in BOOLEAN : syncFullBuchungen(okRefresh)
                        /\ selectedBooking' = Null
                   ELSE UNCHANGED <<snapshotVars, selectedBooking>>
         ELSE /\ Show(s, AlertStoreError)
              /\ UNCHANGED <<buchungenTable, snapshotVars, selectedBooking>>
  /\ UNCHANGED <<envVars, gaesteTable, selectionVars, isBookingModalVisible,
                 handlerVars, homeVars, catalogVars>>

\* handleDelete of the edit form opened on booking id, once confirmed: the
\* soft-delete update, then onRefresh and onClose
handleDelete(s, id) ==
  /\ pc[s] = "idle"
  /\ \E ok \in BOOLEAN :
       IF ok
         THEN /\ buchungenTable' = SoftDelete(buchungenTable, id)
              /\ Show(s, AlertSoftDeleted)
              /\ IF s = Ui
                   THEN /\ \E okRefresh \in BOOLEAN : syncFullBuchungen(okRefresh)
                        /\ selectedBooking' = Null
                   ELSE UNCHANGED <<snapshotVars, selectedBooking>>
         ELSE /\ Show(s, AlertStoreError)
              /\ UNCHANGED <<buchungenTable, snapshotVars, selectedBooking>>
  /\ UNCHANGED <<envVars, gaesteTable, selectionVars, isBookingModalVisible,
                 handlerVars, homeVars, catalogVars>>

(* ------------------- EinstellungenScreen: vacations -------------------- *)
AlertFerienNotPossible == "In mindestens einem Zimmer existiert bereits eine Buchung."
AlertFerienCreated == "Ferien erstellt."
AlertFerienUpdated == "Ferien aktualisiert."
FerienName == "Ferien Ferien"

\* the overlap query of handleFerienEintragen: every row, of any room, with
\* check_in < ferienEnde and check_out > ferienStart
FerienOverlaps(table, ferienStart, ferienEnde) ==
  {i \in 1..Len(table) :
     table[i].check_in < ferienEnde /\ table[i].check_out > ferienStart}

\* zimmerData.map(...) inserted in one request: one row per room
RECURSIVE InsertFerien(_, _, _, _, _)
InsertFerien(table, room, gast, ferienStart, ferienEnde) ==
  IF room > NumRooms THEN table
  ELSE InsertFerien(
         InsertBuchung(table, room, gast, ferienStart, ferienEnde, 0, "Ferien", ""),
         room + 1, gast, ferienStart, ferienEnde)

\* handleFerienEintragen with both dates typed in: the overlap query, the
\* rooms, the Ferien guest (found or created), the insert of one row per room
handleFerienEintragen(s, ferienStart, ferienEnde) ==
  /\ pc[s] = "idle"
  /\ Len(buchungenTable) + InFlight < MaxBookings
  /\ \E ok \in BOOLEAN :
       IF ~ok
         THEN Show(s, AlertStoreError) /\ UNCHANGED storeVars
       ELSE IF FerienOverlaps(buchungenTable, ferienStart, ferienEnde) # {}
         THEN Show(s, AlertFerienNotPossible) /\ UNCHANGED storeVars
       ELSE LET found == GuestIds(FerienName) # {}
                ferienGuestId == IF found THEN FirstGuestId(FerienName)
                                 ELSE Len(gaesteTable) + 1
            IN /\ gaesteTable' = IF found THEN gaesteTable
                                 ELSE Append(gaesteTable, FerienName)
               /\ buchungenTable' =
                    InsertFerien(buchungenTable, 1, ferienGuestId, ferienStart, ferienEnde)
               /\ Show(s, AlertFerienCreated)
  /\ UNCHANGED <<envVars, snapshotVars, selectionVars, modalVars, handlerVars, homeVars, catalogVars>>

\* fetchFerien: the (check_in, check_out) pairs of the rows of status Ferien
\* whose check_out lies after today's ISO date
ferienListe ==
  {<<buchungenTable[i].check_in, buchungenTable[i].check_out>> :
     i \in {j \in 1..Len(buchungenTable) :
              /\ buchungenTable[j].status = "Ferien"
              /\ buchungenTable[j].check_out
                   > toISODate(Today * SlotsPerDay + tod, tzOffset)}}

UpdateFerien(table, currentEdit, newStart, newEnd) ==
  [i \in 1..Len(table) |->
     IF /\ table[i].status = "Ferien"
        /\ table[i].check_in = currentEdit[1]
        /\ table[i].check_out = currentEdit[2]
       THEN [table[i] EXCEPT !.check_in = newStart, !.check_out = newEnd]
       ELSE table[i]]

\* handleFerienBearbeiten on a listed vacation, with the new dates typed in
handleFerienBearbeiten(s, currentEdit, newStart, newEnd) ==
  /\ pc[s] = "idle"
  /\ currentEdit \in ferienListe
  /\ \E ok \in BOOLEAN :
       IF ok
         THEN /\ buchungenTable' = UpdateFerien(buchungenTable, currentEdit, newStart, newEnd)
              /\ Show(s, AlertFerienUpdated)
         ELSE /\ UNCHANGED buchungenTable
              /\ Show(s, AlertStoreError)
  /\ UNCHANGED <<envVars, gaesteTable, snapshotVars, selectionVars, modalVars,
                 handlerVars, homeVars, catalogVars>>

(* --------- specification: two sessions creating bookings at once -------- *)
\* the person counts typed into the form
PersonCounts == {1}

\* a form modal opened on a selected range: any room, any two days of the
\* window in order
CreatePress(s) ==
  /\ \E room \in Rooms, checkIn \in Days, checkOut \in Days :
       /\ checkIn < checkOut
       /\ \E personCount \in PersonCounts :
            handleCreate_Start(s, room, checkIn, checkOut, ValidName, personCount)
  /\ UNCHANGED <<envVars, storeVars, snapshotVars, selectionVars, modalVars, homeVars, catalogVars>>

InitConc ==
  /\ tod = 0
  /\ tzOffset = 0
  /\ buchungenTable = <<>>
  /\ gaesteTable = <<>>
  /\ buchungen = <<>>
  /\ localBuchungen = <<>>
  /\ EmptySelection
  /\ isBookingModalVisible = FALSE
  /\ selectedBooking = Null
  /\ IdleHandlers
  /\ homeBuchungen = <<>>
  /\ CatalogLoaded
  /\ selectedDate = 0

NextConc ==
  \E s \in Sessions :
    \/ CreatePress(s)
    \/ handleCreate_GuestSelect(s)
    \/ handleCreate_GuestInsert(s)
    \/ handleCreate_Validate(s)
    \/ handleCreate_Insert(s)
    \/ handleCreate_Refresh(s)

SpecConc == InitConc /\ [][NextConc]_vars

\* two rows of one room, neither soft-deleted, whose interiors overlap
InteriorsOverlap(a, b) ==
  /\ a.zimmer_id = b.zimmer_id
  /\ ~a.deleted_at /\ ~b.deleted_at
  /\ a.check_in < b.check_out
  /\ b.check_in < a.check_out

NoOverlapInStore ==
  \A i \in 1..Len(buchungenTable), j \in 1..Len(buchungenTable) :
    i # j => ~InteriorsOverlap(buchungenTable[i], buchungenTable[j])

\* C5: when two sessions submit overlapping bookings of one room at once,
\* however the recheck and the insert of each interleave, at most one insert
\* succeeds: the table never holds two non-deleted bookings of a room with
\* overlapping interiors.
C5_ConcurrentCreatesExclusive == NoOverlapInStore

\* C27: a booking submission that is rejected or fails (conflict found by the
\* remote recheck, or a store error) leaves nothing partially applied: the
\* store holds no record written by it, neither a booking nor a guest. Every
\* guest row of the store therefore belongs to a booking row or to a
\* submission still on its way to the insert of its booking.
C27_NoRecordOfFailedSubmission ==
  \A g \in 1..Len(gaesteTable) :
    \/ \E i \in 1..Len(buchungenTable) : buchungenTable[i].gast_id = g
    \/ \E s \in Sessions : pc[s] \in {"validate", "insert"} /\ Frame(s).guestId = g

(* ------- specification: one session creating, editing, deleting -------- *)
\* the bookings a form can be opened on: the rows not soft-deleted
LiveIds == {buchungenTable[i].id : i \in {j \in 1..Len(buchungenTable) :
                                            ~buchungenTable[j].deleted_at}}

StoreCreatePress == CreatePress("s2")
StoreGuestSelect == handleCreate_GuestSelect("s2")
StoreGuestInsert == handleCreate_GuestInsert("s2")
StoreValidate == handleCreate_Validate("s2")
StoreInsert == handleCreate_Insert("s2")
StoreRefresh == handleCreate_Refresh("s2")

StoreUpdate ==
  \E id \in LiveIds, checkIn \in Days, checkOut \in Days, personCount \in PersonCounts :
    handleUpdate("s2", id, checkIn, checkOut, personCount)

StoreDelete == \E id \in LiveIds : handleDelete("s2", id)

StoreFerienEintragen ==
  \E ferienStart \in Days, ferienEnde \in Days :
    handleFerienEintragen("s2", ferienStart, ferienEnde)

StoreFerienBearbeiten ==
  \E currentEdit \in ferienListe, newStart \in Days, newEnd \in Days :
    handleFerienBearbeiten("s2", currentEdit, newStart, newEnd)

NextStore ==
  \/ StoreCreatePress
  \/ StoreGuestSelect
  \/ StoreGuestInsert
  \/ StoreValidate
  \/ StoreInsert
  \/ StoreRefresh
  \/ StoreUpdate
  \/ StoreDelete
  \/ StoreFerienEintragen
  \/ StoreFerienBearbeiten

SpecStore == InitConc /\ [][NextStore]_vars

\* C30: creating a vacation period [s, e] is accepted exactly when no
\* non-deleted booking of any room overlaps it in the interior (check_in < e
\* and check_out > s); when accepted, exactly one blackout booking with range
\* [s, e] and zero persons is inserted for every room, and when rejected
\* nothing is inserted. A soft-deleted booking never causes a rejection.
C30_FerienAcceptedIffFree ==
  [][\A s \in Days, e \in Days :
       (handleFerienEintragen("s2", s, e) /\ alert'["s2"] # AlertStoreError) =>
         LET free == \A i \in 1..Len(buchungenTable) :
                       ~buchungenTable[i].deleted_at =>
                         ~( /\ buchungenTable[i].check_in < e
                            /\ buchungenTable[i].check_out > s )
             added == (Len(buchungenTable) + 1)..Len(buchungenTable')
         IN IF free
              THEN /\ SubSeq(buchungenTable', 1, Len(buchungenTable)) = buchungenTable
                   /\ \A z \in Rooms :
                        Cardinality({k \in added : buchungenTable'[k].zimmer_id = z}) = 1
                   /\ \A k \in added :
                        /\ buchungenTable'[k].check_in = s
                        /\ buchungenTable'[k].check_out = e
                        /\ buchungenTable'[k].anzahl_personen = 0
                        /\ buchungenTable'[k].zimmer_id \in Rooms
              ELSE buchungenTable' = buchungenTable]_vars

\* C1: after any sequence of booking creations, booking edits, soft-deletes
\* and vacation creations and edits performed by one session, no two
\* non-deleted bookings of a room have overlapping interiors.
C1_NoOverlapOneSession ==
  \A z \in Rooms :
    \A i \in 1..Len(buchungenTable), j \in 1..Len(buchungenTable) :
      ( /\ i < j
        /\ buchungenTable[i].zimmer_id = z /\ buchungenTable[j].zimmer_id = z
        /\ ~buchungenTable[i].deleted_at /\ ~buchungenTable[j].deleted_at )
      => \/ buchungenTable[i].check_out <= buchungenTable[j].check_in
         \/ buchungenTable[j].check_out <= buchungenTable[i].check_in

(* ------------- CalendarScreen: the handlers around the modals ----------- *)
AlertSelectAll == "Bitte Check-In, Check-Out und Zimmer auswaehlen."

\* the press of "Buchung erstellen" in the form CalendarScreen renders
CalendarHandleCreate ==
  /\ isBookingModalVisible
  /\ \E guestName \in {ValidName}, personCount \in PersonCounts :
       handleCreate_Start(Ui, CalendarFormRoomId,
                          IF IsNull(selectedCheckIn) THEN 0 ELSE CalendarFormCheckIn,
                          IF IsNull(selectedCheckOut) THEN 0 ELSE CalendarFormCheckOut,
                          guestName, personCount)
  /\ UNCHANGED <<envVars, storeVars, snapshotVars, selectionVars, modalVars, homeVars, catalogVars>>

\* a faulty handleBookingSubmit: without a complete selection it returns
\* silently
handleBookingSubmit_SilentWithoutSelection(guestName, personCount) ==
  IF IsNull(selectedCheckIn) \/ IsNull(selectedCheckOut) \/ selectedzimmerId = NoRoom
    THEN /\ Show(Ui, NoAlert)
         /\ UNCHANGED <<storeVars, snapshotVars, selectionVars>>
  ELSE IF NameTokens(guestName) < 2
    THEN /\ Show(Ui, AlertNameParts)
         /\ UNCHANGED <<storeVars, snapshotVars, selectionVars>>
  ELSE \E okSelect \in BOOLEAN, okGuest \in BOOLEAN, okInsert \in BOOLEAN :
         /\ ~okSelect => Len(gaesteTable) < MaxGuests
         /\ LET found == okSelect /\ GuestIds(guestName) # {}
                guestId == IF found THEN FirstGuestId(guestName)
                           ELSE Len(gaesteTable) + 1
            IN IF ~found /\ ~okGuest
                 THEN /\ Show(Ui, AlertGuestNotCreated)
                      /\ UNCHANGED <<storeVars, snapshotVars, selectionVars>>
                 ELSE /\ gaesteTable' = IF found THEN gaesteTable
                                        ELSE Append(gaesteTable, guestName)
                      /\ IF ~okInsert
                           THEN /\ Show(Ui, AlertStoreError)
                                /\ UNCHANGED <<buchungenTable, snapshotVars,
                                               selectionVars>>
                           ELSE /\ buchungenTable' =
                                     InsertBuchung(buchungenTable, selectedzimmerId,
                                                   guestId, CalendarFormCheckIn,
                                                   CalendarFormCheckOut, personCount,
                                                   "belegt", "Fruehstueck")
                                /\ Show(Ui, AlertCreated)
                                /\ selectedzimmerId' = NoRoom
                                /\ selectedCheckIn' = Null
                                /\ selectedCheckOut' = Null
                                /\ \E okRefresh \in BOOLEAN : syncFullBuchungen(okRefresh)

\* handleBookingSubmit, the onSubmit callback CalendarScreen hands to the
\* form: guest lookup or creation, then the insert, then (after 200 ms)
\* onRefresh. No request reads the buchungen table before the insert.
handleBookingSubmit(guestName, personCount) ==
  IF IsNull(selectedCheckIn) \/ IsNull(selectedCheckOut) \/ selectedzimmerId = NoRoom
    THEN /\ Show(Ui, AlertSelectAll)
         /\ UNCHANGED <<storeVars, snapshotVars, selectionVars>>
  ELSE IF NameTokens(guestName) < 2
    THEN /\ Show(Ui, AlertNameParts)
         /\ UNCHANGED <<storeVars, snapshotVars, selectionVars>>
  ELSE \E okSelect \in BOOLEAN, okGuest \in BOOLEAN, okInsert \in BOOLEAN :
         /\ ~okSelect => Len(gaesteTable) < MaxGuests
         /\ LET found == okSelect /\ GuestIds(guestName) # {}
                guestId == IF found THEN FirstGuestId(guestName)
                           ELSE Len(gaesteTable) + 1
            IN IF ~found /\ ~okGuest
                 THEN /\ Show(Ui, AlertGuestNotCreated)
                      /\ UNCHANGED <<storeVars, snapshotVars, selectionVars>>
                 ELSE /\ gaesteTable' = IF found THEN gaesteTable
                                        ELSE Append(gaesteTable, guestName)
                      /\ IF ~okInsert
                           THEN /\ Show(Ui, AlertStoreError)
                                /\ UNCHANGED <<buchungenTable, snapshotVars,
                                               selectionVars>>
                           ELSE /\ buchungenTable' =
                                     InsertBuchung(buchungenTable, selectedzimmerId,
                                                   guestId, CalendarFormCheckIn,
                                                   CalendarFormCheckOut, personCount,
                                                   "belegt", "Fruehstueck")
                                /\ Show(Ui, AlertCreated)
                                /\ selectedzimmerId' = NoRoom
                                /\ selectedCheckIn' = Null
                                /\ selectedCheckOut' = Null
                                /\ \E okRefresh \in BOOLEAN : syncFullBuchungen(okRefresh)

HandleBookingSubmit ==
  /\ isBookingModalVisible
  /\ pc[Ui] = "idle"
  /\ Len(buchungenTable) < MaxBookings
  /\ \E guestName \in {ValidName, OneTokenName}, personCount \in PersonCounts :
       handleBookingSubmit(guestName, personCount)
  /\ UNCHANGED <<envVars, modalVars, handlerVars, homeVars, catalogVars>>

\* a booking block of the overlay is drawn when both its check-in and its
\* check-out day are cells of the grid; its onPress is handleBookingPress
BlockRendered(b) ==
  /\ findDayIndex(parseDate(b.check_in), daysArray) > 0
  /\ findDayIndex(parseDate(b.check_out), daysArray) > 0

HandleBookingPress ==
  /\ ~isBookingModalVisible
  /\ IsNull(selectedBooking)
  /\ \E i \in 1..Len(localBuchungen) :
       /\ BlockRendered(localBuchungen[i])
       /\ selectedBooking' = Some(localBuchungen[i].id)
  /\ Show(Ui, NoAlert)
  /\ UNCHANGED <<envVars, storeVars, snapshotVars, selectionVars,
                 isBookingModalVisible, handlerVars, homeVars, catalogVars>>

\* "Loeschen" in the edit form, confirmed
EditModalDelete ==
  /\ ~IsNull(selectedBooking)
  /\ handleDelete(Ui, Val(selectedBooking))

\* onClose of the edit form (Schliessen, backdrop press)
CloseEditModal ==
  /\ ~IsNull(selectedBooking)
  /\ selectedBooking' = Null
  /\ Show(Ui, NoAlert)
  /\ UNCHANGED <<envVars, storeVars, snapshotVars, selectionVars,
                 isBookingModalVisible, handlerVars, homeVars, catalogVars>>

(* ------------- specification: the calendar screen and the store -------- *)
\* what the buchungen table holds when the screen opens: rows written by
\* earlier sessions
MaxInitialRows == 1

InitialTables ==
  {WithIds(rows) :
     rows \in UNION {[1..n -> {r \in SnapshotRows : r.check_in <= r.check_out}] :
                        n \in 0..MaxInitialRows}}

Init ==
  /\ tod \in TimesOfDay
  /\ tzOffset \in TzOffsets
  /\ buchungenTable \in InitialTables
  /\ gaesteTable = <<>>
  /\ buchungen = <<>>
  /\ localBuchungen = <<>>
  /\ EmptySelection
  /\ isBookingModalVisible = FALSE
  /\ selectedBooking = Null
  /\ IdleHandlers
  /\ homeBuchungen = <<>>
  /\ CatalogLoaded
  /\ selectedDate = 0

DayCellTap == \E day \in DayCells, zimmerId \in Rooms : DayCellOnPress(day, zimmerId)

Next ==
  \/ DayCellTap
  \/ OpenBookingModal
  \/ CloseBookingModal
  \/ CalendarHandleCreate
  \/ HandleBookingSubmit
  \/ SyncFullBuchungen
  \/ HandleBookingPress
  \/ EditModalDelete
  \/ CloseEditModal

Spec == Init /\ [][Next]_vars

(* ------------------ claims on the calendar screen --------------------- *)
\* C4: every insert of a booking is immediately preceded by an availability
\* check against the store's current non-deleted bookings of that room for
\* the submitted interval, and a conflict found prevents the insert: a step
\* that adds a row to the buchungen table adds one that no current
\* non-deleted row of its room conflicts with.
C4_InsertAfterRecheck ==
  [][Len(buchungenTable') > Len(buchungenTable) =>
       LET b == buchungenTable'[Len(buchungenTable')]
       IN ConflictingRows(buchungenTable, b.zimmer_id, b.check_in, b.check_out) = {}]_vars

\* C6: with a range selected (room, check-in before check-out), the form
\* open and valid and the interval free in the store, pressing "Buchung
\* erstellen" does not stop before the store is asked: the handler goes on
\* to its guest and booking requests, which insert the booking when the
\* store answers.
C6_SubmitCreatesBooking ==
  [][( /\ CalendarHandleCreate
       /\ selectedzimmerId \in Rooms
       /\ ~IsNull(selectedCheckIn) /\ ~IsNull(selectedCheckOut)
       /\ LocalDay(Val(selectedCheckIn)) < LocalDay(Val(selectedCheckOut))
       /\ CalendarFormCheckIn < CalendarFormCheckOut
       /\ ConflictingRows(buchungenTable, selectedzimmerId,
                          CalendarFormCheckIn, CalendarFormCheckOut) = {} )
     => /\ pc'[Ui] \in CreatePcs
        /\ alert'[Ui] # AlertNoRoom]_vars

\* C7: localBuchungen never holds a booking whose deleted_at is set, whatever
\* refreshes, soft-deletes and taps came before.
C7_NoDeletedInLocal ==
  \A i \in 1..Len(localBuchungen) : ~localBuchungen[i].deleted_at

\* a soft-deleted row is in the store, and the calendar's list, rebuilt by
\* the refresh after the delete, holds exactly the other rows
C7_Witness ==
  /\ alert[Ui] = AlertSoftDeleted
  /\ \E i \in 1..Len(buchungenTable) : buchungenTable[i].deleted_at
  /\ localBuchungen # <<>>
  /\ {localBuchungen[i].id : i \in 1..Len(localBuchungen)} = LiveIds

\* the messages that reject an attempt to open or submit the form
ValidationSignals == {AlertSelectDates, AlertDifferentDays, AlertSelectAll, AlertNoRoom}

FormBookingButtonVisible == ~IsNull(selectedCheckIn) /\ ~IsNull(selectedCheckOut)

FormOpenBookingModal ==
  /\ ~isBookingModalVisible
  /\ IsNull(selectedBooking)
  /\ FormBookingButtonVisible
  /\ IF IsNull(selectedCheckIn) \/ IsNull(selectedCheckOut) \/ selectedzimmerId = NoRoom
       THEN UNCHANGED isBookingModalVisible /\ Show(Ui, AlertSelectDates)
       ELSE isBookingModalVisible' = TRUE /\ Show(Ui, NoAlert)
  /\ UNCHANGED <<envVars, storeVars, snapshotVars, selectionVars, selectedBooking,
                 handlerVars, homeVars, catalogVars>>

\* the press of "Buchung erstellen" in the form this screen renders
FormHandleCreate ==
  /\ isBookingModalVisible
  /\ \E guestName \in {ValidName}, personCount \in PersonCounts :
       handleCreate_Start(Ui, selectedzimmerId,
                          IF IsNull(selectedCheckIn) THEN 0 ELSE CalendarFormCheckIn,
                          IF IsNull(selectedCheckOut) THEN 0 ELSE CalendarFormCheckOut,
                          guestName, personCount)
  /\ UNCHANGED <<envVars, storeVars, snapshotVars, selectionVars, modalVars, homeVars, catalogVars>>

FormGuestSelect == handleCreate_GuestSelect(Ui)
FormGuestInsert == handleCreate_GuestInsert(Ui)
FormValidate == handleCreate_Validate(Ui)
FormInsert == handleCreate_Insert(Ui)
FormRefresh == handleCreate_Refresh(Ui)

InitForm ==
  /\ tod \in TimesOfDay
  /\ tzOffset \in TzOffsets
  /\ buchungenTable = <<>>
  /\ gaesteTable = <<>>
  /\ buchungen = <<>>
  /\ localBuchungen = <<>>
  /\ EmptySelection
  /\ isBookingModalVisible = FALSE
  /\ selectedBooking = Null
  /\ IdleHandlers
  /\ homeBuchungen = <<>>
  /\ CatalogLoaded
  /\ selectedDate = 0

NextForm ==
  \/ DayCellTap
  \/ FormOpenBookingModal
  \/ CloseBookingModal
  \/ FormHandleCreate
  \/ FormGuestSelect
  \/ FormGuestInsert
  \/ FormValidate
  \/ FormInsert
  \/ FormRefresh
  \/ SyncFullBuchungen

SpecForm == InitForm /\ [][NextForm]_vars

\* C15: after a booking submission succeeds (the booking is inserted in the
\* store), the selection state is Empty: a step that adds a row to the
\* buchungen table ends with room id, check-in and check-out all null.
C15_SelectionEmptyAfterInsert ==
  [][Len(buchungenTable') > Len(buchungenTable) =>
       /\ selectedzimmerId' = NoRoom
       /\ IsNull(selectedCheckIn')
       /\ IsNull(selectedCheckOut')]_vars

(* ------------- CalendarScreen: fetchData, rooms and guests -------------- *)
\* the outcomes of one awaited request: rows, an error result (data is null),
\* or a thrown exception
Outcomes == {"data", "error", "throw"}

\* a faulty fetchData whose guests request stores an empty list when it got
\* no rows
fetchData_Gaeste_EmptyOnFailure(outcome) ==
  /\ fetchPc = "gaeste"
  /\ gaeste' = IF outcome = "data" THEN gaesteTable ELSE <<>>
  /\ fetchPc' = "idle"
  /\ UNCHANGED zimmer

\* fetchData up to its first setState: select * from zimmer and
\* `if (zimmerData) setZimmer(zimmerData)`; an exception ends the run in catch
fetchData_Zimmer(outcome) ==
  /\ fetchPc = "idle"
  /\ zimmer' = IF outcome = "data" THEN Rooms ELSE zimmer
  /\ fetchPc' = IF outcome = "throw" THEN "idle" ELSE "gaeste"
  /\ UNCHANGED gaeste

\* the rest of fetchData: select * from gaeste where deleted_at is null and
\* `if (gaesteData) setGaeste(gaesteData)`
fetchData_Gaeste(outcome) ==
  /\ fetchPc = "gaeste"
  /\ gaeste' = IF outcome = "data" THEN gaesteTable ELSE gaeste
  /\ fetchPc' = "idle"
  /\ UNCHANGED zimmer

FetchZimmer ==
  /\ \E outcome \in Outcomes : fetchData_Zimmer(outcome)
  /\ UNCHANGED <<envVars, storeVars, snapshotVars, selectionVars, modalVars,
                 handlerVars, alert, homeVars>>

FetchGaeste ==
  /\ \E outcome \in Outcomes : fetchData_Gaeste(outcome)
  /\ UNCHANGED <<envVars, storeVars, snapshotVars, selectionVars, modalVars,
                 handlerVars, alert, homeVars>>

\* a tap on a day cell of one of the rows rendered, one row per room loaded
RefreshDayCellTap ==
  \E day \in DayCells, zimmerId \in zimmer : DayCellOnPress(day, zimmerId)

\* the calendar screen from its mount on, with another session creating
\* bookings in the store
InitRefresh ==
  /\ tod \in TimesOfDay
  /\ tzOffset = 0
  /\ buchungenTable = <<>>
  /\ gaesteTable = <<>>
  /\ buchungen = <<>>
  /\ localBuchungen = <<>>
  /\ EmptySelection
  /\ isBookingModalVisible = FALSE
  /\ selectedBooking = Null
  /\ IdleHandlers
  /\ homeBuchungen = <<>>
  /\ selectedDate = 0
  /\ zimmer = {}
  /\ gaeste = <<>>
  /\ fetchPc = "idle"

NextRefresh ==
  \/ RefreshDayCellTap
  \/ SyncFullBuchungen
  \/ FetchZimmer
  \/ FetchGaeste
  \/ StoreCreatePress
  \/ StoreGuestSelect
  \/ StoreGuestInsert
  \/ StoreValidate
  \/ StoreInsert
  \/ StoreRefresh

SpecRefresh == InitRefresh /\ [][NextRefresh]_vars

\* C16: a refresh of the snapshot (the reload of the bookings with the update
\* of localBuchungen, the reload of rooms and guests) never changes the
\* selection: room, check-in and check-out are the same after it as before.
C16_RefreshKeepsSelection ==
  [][(SyncFullBuchungen \/ FetchZimmer \/ FetchGaeste) =>
       /\ selectedzimmerId' = selectedzimmerId
       /\ selectedCheckIn' = selectedCheckIn
       /\ selectedCheckOut' = selectedCheckOut]_vars

\* C16 witness: a selected range that a booking of the snapshot overlaps; the
\* taps accept no such range, so the booking arrived with a refresh after them
C16_Witness ==
  /\ RangeSelected
  /\ \E i \in 1..Len(localBuchungen) :
       /\ localBuchungen[i].zimmer_id = selectedzimmerId
       /\ parseDate(localBuchungen[i].check_in) < Val(selectedCheckOut)
       /\ Val(selectedCheckIn) < parseDate(localBuchungen[i].check_out)

\* the steps of a refresh whose request failed: syncFullBuchungen offline,
\* with an error result or an exception, and the two requests of fetchData
\* with an error result or an exception
FailedSync ==
  /\ pc[Ui] = "idle"
  /\ syncFullBuchungen(FALSE)
  /\ UNCHANGED <<envVars, storeVars, selectionVars, modalVars, handlerVars, alert,
                 homeVars, catalogVars>>

FailedFetch ==
  /\ \E outcome \in Outcomes \ {"data"} :
       \/ fetchData_Zimmer(outcome)
       \/ fetchData_Gaeste(outcome)
  /\ UNCHANGED <<envVars, storeVars, snapshotVars, selectionVars, modalVars,
                 handlerVars, alert, homeVars>>

\* C17: when a refresh request fails (error result or exception) or the
\* device is offline, the bookings, rooms and guests snapshots held before
\* are retained unchanged.
C17_FailedRefreshRetainsSnapshots ==
  [][(FailedSync \/ FailedFetch) =>
       /\ buchungen' = buchungen
       /\ localBuchungen' = localBuchungen
       /\ zimmer' = zimmer
       /\ gaeste' = gaeste]_vars

\* C17 witness: fetchData between its two requests with the rooms still not
\* loaded, so its rooms request failed, while the guests an earlier run
\* loaded are still held
C17_Witness ==
  /\ fetchPc = "gaeste"
  /\ zimmer = {}
  /\ Len(gaeste) > 0
  /\ Len(localBuchungen) > 0

\* C18: the bookings/guests/rooms snapshot is replaced atomically on refresh:
\* no render or tap handler observes bookings of one fetch together with
\* guests of an earlier one. In the store every booking refers to a guest
\* row, so in a snapshot taken as a whole every booking has its guest.
C18_SnapshotFromOneFetch ==
  \A i \in 1..Len(localBuchungen) : localBuchungen[i].gast_id \in 1..Len(gaeste)

\* the store's side of C18: every booking row refers to a guest row
StoreBookingsHaveGuests ==
  \A i \in 1..Len(buchungenTable) : buchungenTable[i].gast_id \in 1..Len(gaesteTable)

\* C19: every booking stored after any sequence of creations through the
\* selection flow, edits through the booking edit form and vacation creations
\* and edits satisfies checkIn <= checkOut.
C19_CheckInNotAfterCheckOut ==
  \A i \in 1..Len(buchungenTable) :
    buchungenTable[i].check_in <= buchungenTable[i].check_out

(* ------------------------- HomeScreen ---------------------------------- *)
\* new Date('YYYY-MM-DD'): midnight UTC of the day, on the local clock
newDateISO(dateStr, tz) == dateStr * SlotsPerDay + tz

\* fetchData: select * from buchungen, every row of the table
homeFetchData(ok) ==
  IF ok THEN homeBuchungen' = buchungenTable ELSE UNCHANGED homeBuchungen

HomeFetchData ==
  /\ \E ok \in BOOLEAN : homeFetchData(ok)
  /\ UNCHANGED <<envVars, storeVars, snapshotVars, selectionVars, modalVars,
                 handlerVars, alert, selectedDate, catalogVars>>

\* the buttons left and right of the date: changeDate(-1), changeDate(1)
changeDate(offset) == selectedDate' = selectedDate + offset * SlotsPerDay

ChangeDate ==
  /\ \E offset \in {-1, 1} :
       /\ LocalDay(selectedDate) + offset \in Days
       /\ changeDate(offset)
  /\ UNCHANGED <<envVars, storeVars, snapshotVars, selectionVars, modalVars,
                 handlerVars, alert, homeBuchungen, catalogVars>>

\* the rows each figure of the day overview is computed from
HomeCheckIns ==
  SelectSeq(homeBuchungen,
            LAMBDA b : isSameDay(newDateISO(b.check_in, tzOffset), selectedDate))

HomeCheckOuts ==
  SelectSeq(homeBuchungen,
            LAMBDA b : isSameDay(newDateISO(b.check_out, tzOffset), selectedDate))

HomeAnwesende ==
  SelectSeq(homeBuchungen,
            LAMBDA b : /\ selectedDate > newDateISO(b.check_in, tzOffset)
                       /\ selectedDate < newDateISO(b.check_out, tzOffset))

HomeFruehstueck ==
  SelectSeq(homeBuchungen,
            LAMBDA b : /\ b.verpflegung \in {"Fruehstueck", "Halbpension"}
                       /\ newDateISO(b.check_in, tzOffset) <= selectedDate
                       /\ newDateISO(b.check_out, tzOffset) >= selectedDate)

HomeHalbpension ==
  SelectSeq(homeBuchungen,
            LAMBDA b : /\ b.verpflegung = "Halbpension"
                       /\ newDateISO(b.check_in, tzOffset) <= selectedDate
                       /\ newDateISO(b.check_out, tzOffset) >= selectedDate)

\* renderRoomStatus: the bookings a room's status bars are drawn for
currentBookings(roomId) ==
  SelectSeq(SelectSeq(homeBuchungen, LAMBDA b : b.zimmer_id = roomId),
            LAMBDA b :
              LET checkIn == newDateISO(b.check_in, tzOffset)
                  checkOut == newDateISO(b.check_out, tzOffset)
              IN \/ isSameDay(selectedDate, checkIn)
                 \/ isSameDay(selectedDate, checkOut)
                 \/ (selectedDate > checkIn /\ selectedDate < checkOut))

\* .reduce((sum, b) => sum + b.anzahl_personen, 0)
RECURSIVE sumPersonen(_)
sumPersonen(list) ==
  IF list = <<>> THEN 0 ELSE list[1].anzahl_personen + sumPersonen(Tail(list))

HomeCheckInCount == sumPersonen(HomeCheckIns)
HomeCheckOutCount == sumPersonen(HomeCheckOuts)

\* the time zones a device showing the day overview can be set to: local time
\* behind UTC (negative) as well as ahead of it
HomeTzOffsets == (0 - MaxTz)..MaxTz

(* ------------- specification: the day overview and the store ----------- *)
InitHome ==
  /\ tod \in TimesOfDay
  /\ tzOffset \in HomeTzOffsets
  /\ buchungenTable \in InitialTables
  /\ gaesteTable = <<>>
  /\ buchungen = <<>>
  /\ localBuchungen = <<>>
  /\ EmptySelection
  /\ isBookingModalVisible = FALSE
  /\ selectedBooking = Null
  /\ IdleHandlers
  /\ homeBuchungen = <<>>
  /\ CatalogLoaded
  /\ selectedDate = Today * SlotsPerDay + tod

NextHome ==
  \/ HomeFetchData
  \/ ChangeDate
  \/ StoreDelete

SpecHome == InitHome /\ [][NextHome]_vars

NoneDeleted(list) == \A i \in 1..Len(list) : ~list[i].deleted_at

\* C8: the day overview's figures (check-ins, check-outs, guests present,
\* breakfast and half-board counts) and the room status bars never include
\* a soft-deleted booking.
C8_HomeExcludesDeleted ==
  /\ NoneDeleted(HomeCheckIns)
  /\ NoneDeleted(HomeCheckOuts)
  /\ NoneDeleted(HomeAnwesende)
  /\ NoneDeleted(HomeFruehstueck)
  /\ NoneDeleted(HomeHalbpension)
  /\ \A roomId \in Rooms : NoneDeleted(currentBookings(roomId))

\* C23: for the selected date, the check-in figure of the day overview is the
\* sum of the person counts of exactly the bookings whose check-in falls on
\* that calendar date, and its entries are exactly those bookings, one entry
\* each, in the order of the booking list; likewise for the check-outs.
C23_CheckInOutAggregates ==
  LET D == LocalDay(selectedDate)
      ins == SelectSeq(homeBuchungen, LAMBDA b : b.check_in = D)
      outs == SelectSeq(homeBuchungen, LAMBDA b : b.check_out = D)
  IN /\ HomeCheckIns = ins
     /\ HomeCheckInCount = sumPersonen(ins)
     /\ HomeCheckOuts = outs
     /\ HomeCheckOutCount = sumPersonen(outs)

\* C24: for every selected date D, the initial one and any reached with
\* changeDate, the guests-present list of the day overview holds exactly the
\* bookings with D strictly between check-in and check-out as calendar days;
\* a booking whose check-in day or check-out day is D is not listed.
C24_AnwesendeStrictlyBetween ==
  LET D == LocalDay(selectedDate)
  IN HomeAnwesende =
       SelectSeq(homeBuchungen, LAMBDA b : b.check_in < D /\ D < b.check_out)

====
